---- MODULE Spec2Model ----
(***************************************************************************)
(* Model of the sevensegment driver (src/src/lib.rs): a struct owning      *)
(* seven embedded-hal OutputPin resources, one per segment a..g, with the  *)
(* operations new, release, clear, seg_a..seg_g and display.               *)
(*                                                                         *)
(* The output lines are external: each line has an electrical level and a  *)
(* write to it (set_high / set_low) either succeeds, driving the level, or *)
(* fails with a line-specific error, leaving the level to the line.        *)
(***************************************************************************)
EXTENDS Integers, Sequences, FiniteSets, TLC

\* ------------------------------------------------------------------ bounds
\* Largest in-sequence value passed to display (0..15 are digits, above: other)
MaxNum == 16
\* Largest number of lines whose writes fail at the same time
MaxFailing == 1

\* --------------------------------------------------------------- constants
\* Largest value of the u8 argument of display
U8Max == 255
\* The unit value () carried by Ok(()) and Err(())
Unit == 0

\* The seven output line resources handed to the driver
Pins == 1..7

\* The fields of the struct, in declaration order
SegOrder == <<"seg_a", "seg_b", "seg_c", "seg_d", "seg_e", "seg_f", "seg_g">>

\* The argument tuples (a,b,c,d,e,f,g) the caller passes to new: the seven
\* resources in an order in which no resource sits in the slot of its number
Wirings == { <<2, 3, 4, 5, 6, 7, 1>> }

\* The values passed to display
Nums == (0..MaxNum) \cup {U8Max}

VARIABLES
    self,     \* the SevenSeg struct: field -> owned line (0: no struct exists)
    args,     \* the tuple passed to the latest new
    ret,      \* the tuple returned by the latest release (<<>>: none yet)
    levels,   \* electrical level of every line
    faulty,   \* the lines whose writes currently fail
    last      \* the latest driver call: operation, argument, writes, result

vars == <<self, args, ret, levels, faulty, last>>

\* ------------------------------------------------------------ result values
OkR == [ok |-> TRUE, val |-> Unit]
ErrR(e) == [ok |-> FALSE, val |-> e]
\* The implementation-defined error of line p for a set_high/set_low write
PinError(p, state) == 10 * p + (IF state THEN 1 ELSE 2)

\* ----------------------------------------------------------- output lines
\* Execution state of one call: line levels, the writes issued so far, the
\* result of each underlying write, the current result and the level a
\* failing line ends at.
Start(g) == [levels |-> levels, writes |-> <<>>, pinres |-> <<>>, res |-> OkR, g |-> g]

Write(m, p, state) ==
    IF p \in faulty
    THEN [m EXCEPT !.levels[p] = m.g,
                   !.writes = Append(@, <<p, state>>),
                   !.pinres = Append(@, ErrR(PinError(p, state))),
                   !.res = ErrR(PinError(p, state))]
    ELSE [m EXCEPT !.levels[p] = state,
                   !.writes = Append(@, <<p, state>>),
                   !.pinres = Append(@, OkR),
                   !.res = OkR]

set_high(m, p) == Write(m, p, TRUE)
set_low(m, p) == Write(m, p, FALSE)

\* Mutant of map_err: the line's own error is passed through
map_err_passthru(m) == m

\* .map_err(|_| ())
map_err(m) == IF m.res.ok THEN m ELSE [m EXCEPT !.res = ErrR(Unit)]

\* ------------------------------------------------------------- the driver
new(seg_a, seg_b, seg_c, seg_d, seg_e, seg_f, seg_g) ==
    [seg_a |-> seg_a, seg_b |-> seg_b, seg_c |-> seg_c, seg_d |-> seg_d,
     seg_e |-> seg_e, seg_f |-> seg_f, seg_g |-> seg_g]

\* Mutant of release: the last two resources are returned in swapped slots
release_swapped(s) ==
    <<s.seg_a, s.seg_b, s.seg_c, s.seg_d, s.seg_e, s.seg_g, s.seg_f>>

release(s) ==
    <<s.seg_a, s.seg_b, s.seg_c, s.seg_d, s.seg_e, s.seg_f, s.seg_g>>

seg_a(m, state) ==
    IF state THEN map_err(set_high(m, self.seg_a)) ELSE map_err(set_low(m, self.seg_a))

seg_b(m, state) ==
    IF state THEN map_err(set_high(m, self.seg_b)) ELSE map_err(set_low(m, self.seg_b))

seg_c(m, state) ==
    IF state THEN map_err(set_high(m, self.seg_c)) ELSE map_err(set_low(m, self.seg_c))

\* Mutant of seg_d: inverted polarity
seg_d_inverted(m, state) ==
    IF state THEN map_err(set_low(m, self.seg_d)) ELSE map_err(set_high(m, self.seg_d))

seg_d(m, state) ==
    IF state THEN map_err(set_high(m, self.seg_d)) ELSE map_err(set_low(m, self.seg_d))

seg_e(m, state) ==
    IF state THEN map_err(set_high(m, self.seg_e)) ELSE map_err(set_low(m, self.seg_e))

seg_f(m, state) ==
    IF state THEN map_err(set_high(m, self.seg_f)) ELSE map_err(set_low(m, self.seg_f))

\* Mutant of seg_g: drives the line of segment f
seg_g_paste(m, state) ==
    IF state THEN map_err(set_high(m, self.seg_f)) ELSE map_err(set_low(m, self.seg_f))

seg_g(m, state) ==
    IF state THEN map_err(set_high(m, self.seg_g)) ELSE map_err(set_low(m, self.seg_g))

\* Mutant of Chain: the ? after seg_d is missing
Chain_nocheck(m, sa, sb, sc, sd, se, sf, sg) ==
    LET m1 == seg_a(m, sa) IN IF ~m1.res.ok THEN m1 ELSE
    LET m2 == seg_b(m1, sb) IN IF ~m2.res.ok THEN m2 ELSE
    LET m3 == seg_c(m2, sc) IN IF ~m3.res.ok THEN m3 ELSE
    LET m4 == seg_d(m3, sd) IN
    LET m5 == seg_e(m4, se) IN IF ~m5.res.ok THEN m5 ELSE
    LET m6 == seg_f(m5, sf) IN IF ~m6.res.ok THEN m6 ELSE
    seg_g(m6, sg)

\* Mutant of Chain: every segment is written, then the results are combined
Chain_all(m, sa, sb, sc, sd, se, sf, sg) ==
    LET m7 == seg_g(seg_f(seg_e(seg_d(seg_c(seg_b(seg_a(m, sa), sb), sc), sd), se), sf), sg) IN
    IF \A i \in 1..7 : m7.pinres[i].ok THEN m7 ELSE [m7 EXCEPT !.res = ErrR(Unit)]

\* The ? operator: the rest of the body runs only when the call succeeded
\* seg_a(sa)?; seg_b(sb)?; seg_c(sc)?; seg_d(sd)?; seg_e(se)?; seg_f(sf)?; seg_g(sg)
Chain(m, sa, sb, sc, sd, se, sf, sg) ==
    LET m1 == seg_a(m, sa) IN IF ~m1.res.ok THEN m1 ELSE
    LET m2 == seg_b(m1, sb) IN IF ~m2.res.ok THEN m2 ELSE
    LET m3 == seg_c(m2, sc) IN IF ~m3.res.ok THEN m3 ELSE
    LET m4 == seg_d(m3, sd) IN IF ~m4.res.ok THEN m4 ELSE
    LET m5 == seg_e(m4, se) IN IF ~m5.res.ok THEN m5 ELSE
    LET m6 == seg_f(m5, sf) IN IF ~m6.res.ok THEN m6 ELSE
    seg_g(m6, sg)

\* Mutant of clear: all lines pulled high
clear_high(m) == Chain(m, TRUE, TRUE, TRUE, TRUE, TRUE, TRUE, TRUE)

clear(m) == Chain(m, FALSE, FALSE, FALSE, FALSE, FALSE, FALSE, FALSE)

\* Mutant of display: the arm of 9 lights segment b, as the arm of 8 does
display_typo(m, num) ==
    CASE num = 0  -> Chain(m, TRUE,  TRUE,  TRUE,  TRUE,  TRUE,  TRUE,  FALSE)
      [] num = 1  -> Chain(m, FALSE, FALSE, FALSE, FALSE, TRUE,  TRUE,  FALSE)
      [] num = 2  -> Chain(m, TRUE,  TRUE,  FALSE, TRUE,  TRUE,  FALSE, TRUE)
      [] num = 3  -> Chain(m, TRUE,  FALSE, FALSE, TRUE,  TRUE,  TRUE,  TRUE)
      [] num = 4  -> Chain(m, FALSE, FALSE, TRUE,  FALSE, TRUE,  TRUE,  TRUE)
      [] num = 5  -> Chain(m, TRUE,  FALSE, TRUE,  TRUE,  FALSE, TRUE,  TRUE)
      [] num = 6  -> Chain(m, TRUE,  TRUE,  TRUE,  TRUE,  FALSE, TRUE,  TRUE)
      [] num = 7  -> Chain(m, FALSE, FALSE, FALSE, TRUE,  TRUE,  TRUE,  FALSE)
      [] num = 8  -> Chain(m, TRUE,  TRUE,  TRUE,  TRUE,  TRUE,  TRUE,  TRUE)
      [] num = 9  -> Chain(m, TRUE,  TRUE,  TRUE,  TRUE,  TRUE,  TRUE,  TRUE)
      [] num = 10 -> Chain(m, FALSE, TRUE,  TRUE,  TRUE,  TRUE,  TRUE,  TRUE)
      [] num = 11 -> Chain(m, TRUE,  TRUE,  TRUE,  FALSE, FALSE, TRUE,  TRUE)
      [] num = 12 -> Chain(m, TRUE,  TRUE,  TRUE,  TRUE,  FALSE, FALSE, FALSE)
      [] num = 13 -> Chain(m, TRUE,  TRUE,  FALSE, FALSE, TRUE,  TRUE,  TRUE)
      [] num = 14 -> Chain(m, TRUE,  TRUE,  TRUE,  TRUE,  FALSE, FALSE, TRUE)
      [] num = 15 -> Chain(m, FALSE, TRUE,  TRUE,  TRUE,  FALSE, FALSE, TRUE)
      [] OTHER    -> clear(m)

\* Mutant of display: only the low four bits of num are matched
display_wrap(m, num) ==
    CASE num % 16 = 0  -> Chain(m, TRUE,  TRUE,  TRUE,  TRUE,  TRUE,  TRUE,  FALSE)
      [] num % 16 = 1  -> Chain(m, FALSE, FALSE, FALSE, FALSE, TRUE,  TRUE,  FALSE)
      [] num % 16 = 2  -> Chain(m, TRUE,  TRUE,  FALSE, TRUE,  TRUE,  FALSE, TRUE)
      [] num % 16 = 3  -> Chain(m, TRUE,  FALSE, FALSE, TRUE,  TRUE,  TRUE,  TRUE)
      [] num % 16 = 4  -> Chain(m, FALSE, FALSE, TRUE,  FALSE, TRUE,  TRUE,  TRUE)
      [] num % 16 = 5  -> Chain(m, TRUE,  FALSE, TRUE,  TRUE,  FALSE, TRUE,  TRUE)
      [] num % 16 = 6  -> Chain(m, TRUE,  TRUE,  TRUE,  TRUE,  FALSE, TRUE,  TRUE)
      [] num % 16 = 7  -> Chain(m, FALSE, FALSE, FALSE, TRUE,  TRUE,  TRUE,  FALSE)
      [] num % 16 = 8  -> Chain(m, TRUE,  TRUE,  TRUE,  TRUE,  TRUE,  TRUE,  TRUE)
      [] num % 16 = 9  -> Chain(m, TRUE,  FALSE, TRUE,  TRUE,  TRUE,  TRUE,  TRUE)
      [] num % 16 = 10 -> Chain(m, FALSE, TRUE,  TRUE,  TRUE,  TRUE,  TRUE,  TRUE)
      [] num % 16 = 11 -> Chain(m, TRUE,  TRUE,  TRUE,  FALSE, FALSE, TRUE,  TRUE)
      [] num % 16 = 12 -> Chain(m, TRUE,  TRUE,  TRUE,  TRUE,  FALSE, FALSE, FALSE)
      [] num % 16 = 13 -> Chain(m, TRUE,  TRUE,  FALSE, FALSE, TRUE,  TRUE,  TRUE)
      [] num % 16 = 14 -> Chain(m, TRUE,  TRUE,  TRUE,  TRUE,  FALSE, FALSE, TRUE)
      [] num % 16 = 15 -> Chain(m, FALSE, TRUE,  TRUE,  TRUE,  FALSE, FALSE, TRUE)
      [] OTHER    -> clear(m)

display(m, num) ==
    CASE num = 0  -> Chain(m, TRUE,  TRUE,  TRUE,  TRUE,  TRUE,  TRUE,  FALSE)
      [] num = 1  -> Chain(m, FALSE, FALSE, FALSE, FALSE, TRUE,  TRUE,  FALSE)
      [] num = 2  -> Chain(m, TRUE,  TRUE,  FALSE, TRUE,  TRUE,  FALSE, TRUE)
      [] num = 3  -> Chain(m, TRUE,  FALSE, FALSE, TRUE,  TRUE,  TRUE,  TRUE)
      [] num = 4  -> Chain(m, FALSE, FALSE, TRUE,  FALSE, TRUE,  TRUE,  TRUE)
      [] num = 5  -> Chain(m, TRUE,  FALSE, TRUE,  TRUE,  FALSE, TRUE,  TRUE)
      [] num = 6  -> Chain(m, TRUE,  TRUE,  TRUE,  TRUE,  FALSE, TRUE,  TRUE)
      [] num = 7  -> Chain(m, FALSE, FALSE, FALSE, TRUE,  TRUE,  TRUE,  FALSE)
      [] num = 8  -> Chain(m, TRUE,  TRUE,  TRUE,  TRUE,  TRUE,  TRUE,  TRUE)
      [] num = 9  -> Chain(m, TRUE,  FALSE, TRUE,  TRUE,  TRUE,  TRUE,  TRUE)
      [] num = 10 -> Chain(m, FALSE, TRUE,  TRUE,  TRUE,  TRUE,  TRUE,  TRUE)
      [] num = 11 -> Chain(m, TRUE,  TRUE,  TRUE,  FALSE, FALSE, TRUE,  TRUE)
      [] num = 12 -> Chain(m, TRUE,  TRUE,  TRUE,  TRUE,  FALSE, FALSE, FALSE)
      [] num = 13 -> Chain(m, TRUE,  TRUE,  FALSE, FALSE, TRUE,  TRUE,  TRUE)
      [] num = 14 -> Chain(m, TRUE,  TRUE,  TRUE,  TRUE,  FALSE, FALSE, TRUE)
      [] num = 15 -> Chain(m, FALSE, TRUE,  TRUE,  TRUE,  FALSE, FALSE, TRUE)
      [] OTHER    -> clear(m)

\* ------------------------------------------------------------ the machine
Moved == new(0, 0, 0, 0, 0, 0, 0)
Alive == self # Moved

Idle == [op |-> "none", arg |-> 0, writes |-> <<>>, pinres |-> <<>>, res |-> OkR]
Call(op, arg, m) ==
    [op |-> op, arg |-> arg, writes |-> m.writes, pinres |-> m.pinres, res |-> m.res]
Flag(state) == IF state THEN 1 ELSE 0

Init ==
    /\ self = Moved
    /\ args = <<>>
    /\ ret = <<>>
    /\ levels \in [Pins -> BOOLEAN]
    /\ faulty = {}
    /\ last = Idle

New ==
    /\ ~Alive
    /\ \E w \in Wirings :
        /\ self' = new(w[1], w[2], w[3], w[4], w[5], w[6], w[7])
        /\ args' = w
    /\ ret' = <<>>
    /\ last' = [Idle EXCEPT !.op = "new"]
    /\ UNCHANGED <<levels, faulty>>

Release ==
    /\ Alive
    /\ ret' = release(self)
    /\ self' = Moved
    /\ last' = [Idle EXCEPT !.op = "release"]
    /\ UNCHANGED <<args, levels, faulty>>

Finish(op, arg, m) ==
    /\ levels' = m.levels
    /\ last' = Call(op, arg, m)
    /\ UNCHANGED <<self, args, ret, faulty>>

Clear ==
    /\ Alive
    /\ \E g \in BOOLEAN : Finish("clear", 0, clear(Start(g)))

SegA ==
    /\ Alive
    /\ \E state \in BOOLEAN, g \in BOOLEAN :
        Finish("seg_a", Flag(state), seg_a(Start(g), state))

SegB ==
    /\ Alive
    /\ \E state \in BOOLEAN, g \in BOOLEAN :
        Finish("seg_b", Flag(state), seg_b(Start(g), state))

SegC ==
    /\ Alive
    /\ \E state \in BOOLEAN, g \in BOOLEAN :
        Finish("seg_c", Flag(state), seg_c(Start(g), state))

SegD ==
    /\ Alive
    /\ \E state \in BOOLEAN, g \in BOOLEAN :
        Finish("seg_d", Flag(state), seg_d(Start(g), state))

SegE ==
    /\ Alive
    /\ \E state \in BOOLEAN, g \in BOOLEAN :
        Finish("seg_e", Flag(state), seg_e(Start(g), state))

SegF ==
    /\ Alive
    /\ \E state \in BOOLEAN, g \in BOOLEAN :
        Finish("seg_f", Flag(state), seg_f(Start(g), state))

SegG ==
    /\ Alive
    /\ \E state \in BOOLEAN, g \in BOOLEAN :
        Finish("seg_g", Flag(state), seg_g(Start(g), state))

Display ==
    /\ Alive
    /\ \E num \in Nums, g \in BOOLEAN :
        Finish("display", num, display(Start(g), num))

\* A line starts to fail its writes
Fault ==
    /\ Cardinality(faulty) < MaxFailing
    /\ \E p \in Pins \ faulty : faulty' = faulty \cup {p}
    /\ last' = Idle
    /\ UNCHANGED <<self, args, ret, levels>>

\* A failing line works again
Repair ==
    /\ \E p \in faulty : faulty' = faulty \ {p}
    /\ last' = Idle
    /\ UNCHANGED <<self, args, ret, levels>>

Next ==
    \/ New
    \/ Release
    \/ Clear
    \/ SegA
    \/ SegB
    \/ SegC
    \/ SegD
    \/ SegE
    \/ SegF
    \/ SegG
    \/ Display
    \/ Fault
    \/ Repair

Spec == Init /\ [][Next]_vars

TypeOK ==
    /\ levels \in [Pins -> BOOLEAN]
    /\ faulty \subseteq Pins
    /\ last.op \in {"none", "new", "release", "clear", "display",
                    "seg_a", "seg_b", "seg_c", "seg_d", "seg_e", "seg_f", "seg_g"}

\* ----------------------------------------------------- stating the claims
\* The line bound to the i-th segment in the order a,b,c,d,e,f,g
Slot(i) == self[SegOrder[i]]

\* The positions, in a..g order, whose line fails its writes
FailingSlots == { i \in 1..7 : Slot(i) \in faulty }
FirstFailing == CHOOSE k \in FailingSlots : \A j \in FailingSlots : k <= j

\* The encoding table of the specification, rows 0..15, columns a..g
SpecTable ==
    << <<1,1,1,1,1,1,0>>, <<0,0,0,0,1,1,0>>, <<1,1,0,1,1,0,1>>, <<1,0,0,1,1,1,1>>,
       <<0,0,1,0,1,1,1>>, <<1,0,1,1,0,1,1>>, <<1,1,1,1,0,1,1>>, <<0,0,0,1,1,1,0>>,
       <<1,1,1,1,1,1,1>>, <<1,0,1,1,1,1,1>>, <<0,1,1,1,1,1,1>>, <<1,1,1,0,0,1,1>>,
       <<1,1,1,1,0,0,0>>, <<1,1,0,0,1,1,1>>, <<1,1,1,1,0,0,1>>, <<0,1,1,1,0,0,1>> >>
AllOff == <<0,0,0,0,0,0,0>>

\* The pattern a call is specified to request: the table row of a digit,
\* all off for clear and for any other value
Requested(op, arg) ==
    IF op = "display" /\ arg \in 0..15 THEN SpecTable[arg + 1] ELSE AllOff

\* The first n writes of a pattern, in the order a,b,c,d,e,f,g
Writes(pat, n) == [i \in 1..n |-> <<Slot(i), pat[i] = 1>>]

IsMulti == last.op \in {"clear", "display"}

\* C1: for every digit 0..15, when no line write fails, display issues exactly
\* seven writes in the order a..g whose states are the table row of the digit,
\* and returns success.
C1_DisplayTable ==
    (last.op = "display" /\ last.arg \in 0..15 /\ FailingSlots = {})
        => /\ Len(last.writes) = 7
           /\ last.writes = Writes(SpecTable[last.arg + 1], 7)
           /\ last.res = OkR

C1_Witness ==
    /\ last.op = "display" /\ last.arg = 11
    /\ Len(last.writes) = 7 /\ last.res.ok

\* C3: when no line write fails, clear issues exactly seven writes, each off,
\* one per segment in the order a..g, returns success and leaves every line low.
C3_ClearSevenOff ==
    (last.op = "clear" /\ FailingSlots = {})
        => /\ Len(last.writes) = 7
           /\ \A i \in 1..7 : last.writes[i] = <<Slot(i), FALSE>>
           /\ last.res = OkR
           /\ \A p \in Pins : ~levels[p]

C3_Witness ==
    /\ last.op = "clear" /\ Len(last.writes) = 7 /\ last.res.ok

\* C4: when the first failing write of clear or display is the one to segment k,
\* the writes issued are exactly those to the segments before k, in order,
\* followed by the one failed attempt on k, and the call returns failure.
C4_AbortAtFirstFailure ==
    (IsMulti /\ FailingSlots # {})
        => LET k == FirstFailing IN
           /\ Len(last.writes) = k
           /\ last.writes = Writes(Requested(last.op, last.arg), k)
           /\ \A i \in 1..(k - 1) : last.pinres[i].ok
           /\ ~last.pinres[k].ok
           /\ ~last.res.ok

C4_Witness ==
    /\ last.op = "display" /\ last.arg = 5
    /\ FailingSlots # {} /\ FirstFailing = 4
    /\ Len(last.writes) = 4 /\ ~last.res.ok

\* C7: a single-segment operation succeeds exactly when the line write does;
\* every failure of a segment operation, clear or display is the same unit
\* error, whatever the line, the direction and the line's own error.
C7_UniformError ==
    /\ last.op \in {"seg_a", "seg_b", "seg_c", "seg_d", "seg_e", "seg_f", "seg_g"}
        => /\ Len(last.pinres) = 1
           /\ last.res.ok <=> last.pinres[1].ok
    /\ ~last.res.ok => last.res = ErrR(Unit)

C7_Witness ==
    /\ last.op = "seg_c" /\ last.arg = 1
    /\ ~last.res.ok /\ last.pinres[1].val # Unit

\* C9: after a successful display or clear the levels of the seven lines are
\* exactly the pattern of that call, whatever was called before.
C9_LastWriteWins ==
    (IsMulti /\ last.res.ok)
        => \A i \in 1..7 : levels[Slot(i)] = (Requested(last.op, last.arg)[i] = 1)

C9_Witness ==
    /\ last.op = "display" /\ last.arg = 2 /\ last.res.ok
    /\ levels[Slot(1)] /\ ~levels[Slot(3)]

\* C10: a successfully displayed digit 0..15 leaves the lines at levels that
\* no other digit 0..15 and no clear would leave them at.
C10_Unambiguous ==
    (last.op = "display" /\ last.arg \in 0..15 /\ last.res.ok)
        => /\ \A d \in (0..15) \ {last.arg} : display(Start(TRUE), d).levels # levels
           /\ clear(Start(TRUE)).levels # levels

C10_Witness ==
    /\ last.op = "display" /\ last.arg = 9 /\ last.res.ok
    /\ levels[Slot(7)]

\* C2: display of a value outside 0..15 issues the same writes, returns the
\* same result and leaves the same levels as clear run from the same line
\* levels with the same failing lines: segments set to off in the order a..g.
C2_OtherIsClear ==
    [][(last'.op = "display" /\ last'.arg > 15)
        => /\ \E g \in BOOLEAN :
                LET c == clear(Start(g)) IN
                /\ last'.writes = c.writes
                /\ last'.pinres = c.pinres
                /\ last'.res = c.res
                /\ levels' = c.levels
           /\ last'.writes = Writes(AllOff, Len(last'.writes))
           /\ (FailingSlots = {} => Len(last'.writes) = 7)]_vars

C2_Witness ==
    /\ last.op = "display" /\ last.arg = U8Max
    /\ Len(last.writes) = 7 /\ last.res.ok
    /\ \A p \in Pins : ~levels[p]

\* C5: release returns the seven resources given to new, in construction
\* order, whatever was called in between; new and release issue no write and
\* leave every line's level unchanged.
C5_RoundTrip ==
    [][/\ last'.op = "new"
            => /\ release(self') = args'
               /\ last'.writes = <<>>
               /\ levels' = levels
       /\ last'.op = "release"
            => /\ ret' = args
               /\ last'.writes = <<>>
               /\ levels' = levels
       /\ last'.op \notin {"new", "release"}
            => /\ self' = self
               /\ args' = args]_vars

C5_Witness ==
    /\ last.op = "release"
    /\ ret = <<2, 3, 4, 5, 6, 7, 1>>
    /\ ret = args

\* C6: a single-segment operation issues exactly one write, to the line bound
\* to its segment, with the requested state; the line takes that level when
\* the write succeeds, and the other six lines keep their levels.
C6_SingleSegment ==
    [][\A i \in 1..7 :
        last'.op = SegOrder[i]
            => /\ Len(last'.writes) = 1
               /\ last'.writes[1] = <<Slot(i), last'.arg = 1>>
               /\ last'.res.ok => levels'[Slot(i)] = (last'.arg = 1)
               /\ \A p \in Pins \ {Slot(i)} : levels'[p] = levels[p]]_vars

C6_Witness ==
    /\ last.op = "seg_g" /\ last.arg = 1
    /\ last.writes = << <<self.seg_g, TRUE>> >>
    /\ last.res.ok /\ levels[self.seg_g]
    /\ ~levels[self.seg_f]

\* C8: when clear or display fails at segment k, every segment before k is
\* at the level the call requested for it and every segment after k is at
\* the level it had before the call.
C8_NoRollback ==
    [][(last'.op \in {"clear", "display"} /\ ~last'.res.ok)
        => LET k == Len(last'.writes)
               pat == Requested(last'.op, last'.arg) IN
           /\ k \in 1..7
           /\ \A i \in 1..(k - 1) : levels'[Slot(i)] = (pat[i] = 1)
           /\ \A i \in (k + 1)..7 : levels'[Slot(i)] = levels[Slot(i)]]_vars

C8_Witness ==
    /\ last.op = "display" /\ last.arg = 8
    /\ ~last.res.ok /\ Len(last.writes) = 4
    /\ levels[Slot(1)] /\ levels[Slot(2)] /\ levels[Slot(3)]
    /\ ~levels[Slot(5)] /\ ~levels[Slot(7)]
====
